---------------------------- MODULE Spec2Model ----------------------------
(***************************************************************************)
(* A model of VIO::StereoFrame (src/src/frontend/StereoFrame.cpp): the     *)
(* constructor, setIsKeyframe, getDepthFromRectifiedMatches,               *)
(* checkStereoFrame and getSmartStereoMeasurements.                        *)
(*                                                                         *)
(* Numbers.  Pixel coordinates, fx, baseline and the distance thresholds   *)
(* are doubles holding integer values and are modelled as integers.  A     *)
(* quotient of two of them is modelled exactly, as a fraction in lowest    *)
(* terms [n, d] with d >= 0; d = 0 stands for the IEEE-754 results of a    *)
(* division by zero: [1,0] is +inf, [-1,0] is -inf and [0,0] is NaN.       *)
(***************************************************************************)
EXTENDS Integers, Sequences, FiniteSets, TLC

VARIABLES
  pc,                        \* phase of the scenario being explored
  outcome,                   \* how the last call ended: "none", "ok", "fatal", "out_of_range"
  args,                      \* the constructor's arguments
  id_, timestamp_,           \* StereoFrame members
  is_keyframe_, is_rectified_,
  left_frame_, right_frame_,
  keypoints_3d_,
  left_keypoints_rectified_, right_keypoints_rectified_,
  smart_stereo_measurements, \* the caller's output container
  use_stereo_measurements,   \* the flag of the last getSmartStereoMeasurements call
  calls,                     \* how many times getSmartStereoMeasurements was called
  left_keypoints_rectified,  \* getDepthFromRectifiedMatches: in/out arguments
  right_keypoints_rectified,
  left_in, right_in,         \* the two arguments as they were when the call started
  fx, baseline, stereo_matching_params,
  depths                     \* getDepthFromRectifiedMatches: returned vector

vars == << pc, outcome, args, id_, timestamp_, is_keyframe_, is_rectified_,
           left_frame_, right_frame_, keypoints_3d_,
           left_keypoints_rectified_, right_keypoints_rectified_,
           smart_stereo_measurements, use_stereo_measurements, calls,
           left_keypoints_rectified, right_keypoints_rectified,
           left_in, right_in, fx, baseline, stereo_matching_params, depths >>

frameVars == << args, id_, timestamp_, is_keyframe_, is_rectified_,
                left_frame_, right_frame_, keypoints_3d_,
                left_keypoints_rectified_, right_keypoints_rectified_,
                smart_stereo_measurements, use_stereo_measurements, calls >>

depthVars == << left_keypoints_rectified, right_keypoints_rectified,
                left_in, right_in, fx, baseline, stereo_matching_params, depths >>

-----------------------------------------------------------------------------
(* Bounds of the exploration *)

MaxLen == 2          \* longest keypoint container explored
MaxCalls == 2        \* calls of getSmartStereoMeasurements on one frame

-----------------------------------------------------------------------------
(* KeypointStatus and the keypoint types *)

VALID == "VALID"
NO_LEFT_RECT == "NO_LEFT_RECT"
NO_RIGHT_RECT == "NO_RIGHT_RECT"
NO_DEPTH == "NO_DEPTH"
FAILED_ARUN == "FAILED_ARUN"

KeypointStatus == {VALID, NO_LEFT_RECT, NO_RIGHT_RECT, NO_DEPTH, FAILED_ARUN}

KeypointCV(x, y) == [x |-> x, y |-> y]

\* An element of a rectified-keypoint vector: the status, the pixel, and the
\* member x that getSmartStereoMeasurements reads from the element itself.
StatusKeypointCV(status, px, x) == [first |-> status, second |-> px, x |-> x]

-----------------------------------------------------------------------------
(* double arithmetic *)

Abs(a) == IF a < 0 THEN -a ELSE a

RECURSIVE Gcd(_, _)
Gcd(a, b) == IF b = 0 THEN a ELSE Gcd(b, a % b)

\* The double holding the integer a.
Dbl(a) == [n |-> a, d |-> 1]

NaN == [n |-> 0, d |-> 0]

IsNaN(a) == a.n = 0 /\ a.d = 0

Sign(a) == IF a > 0 THEN 1 ELSE IF a < 0 THEN -1 ELSE 0

\* a / b on doubles, b >= +0.0: x / 0.0 is +inf, -inf or NaN by the sign of x.
Div(a, b) ==
  IF b = 0 THEN [n |-> Sign(a), d |-> 0]
  ELSE LET g == Gcd(Abs(a), b) IN [n |-> a \div g, d |-> b \div g]

\* a < b on doubles: false whenever an operand is NaN.
Lt(a, b) ==
  IF IsNaN(a) \/ IsNaN(b) THEN FALSE
  ELSE IF a.d = 0 /\ b.d = 0 THEN a.n < b.n
  ELSE a.n * b.d < b.n * a.d

Gt(a, b) == Lt(b, a)

-----------------------------------------------------------------------------
(* StereoFrame::getDepthFromRectifiedMatches *)

\* One iteration of the loop over the keypoints: the status the right
\* keypoint is left with and the depth pushed for it.
DepthIterationIgnoringLeft(left_kp, right_kp, fx_b, params) ==
  IF right_kp.first = VALID
  THEN LET disparity == left_kp.second.x - right_kp.second.x IN
       IF disparity >= 0
       THEN LET depth == Div(fx_b, disparity) IN
            IF Lt(depth, Dbl(params.min_point_dist_)) \/
               Gt(depth, Dbl(params.max_point_dist_))
            THEN [first |-> NO_DEPTH, depth |-> Dbl(0)]
            ELSE [first |-> right_kp.first, depth |-> depth]
       ELSE [first |-> NO_DEPTH, depth |-> Dbl(0)]
  ELSE [first |-> right_kp.first, depth |-> Dbl(0)]

DepthIterationNoRangeFilter(left_kp, right_kp, fx_b, params) ==
  IF left_kp.first = VALID /\ right_kp.first = VALID
  THEN LET disparity == left_kp.second.x - right_kp.second.x IN
       IF disparity >= 0
       THEN LET depth == Div(fx_b, disparity) IN
            IF Lt(depth, Dbl(params.min_point_dist_))
            THEN [first |-> NO_DEPTH, depth |-> Dbl(0)]
            ELSE [first |-> right_kp.first, depth |-> depth]
       ELSE [first |-> NO_DEPTH, depth |-> Dbl(0)]
  ELSE IF left_kp.first # VALID
       THEN [first |-> left_kp.first, depth |-> Dbl(0)]
       ELSE [first |-> right_kp.first, depth |-> Dbl(0)]

DepthIterationKeepsStatus(left_kp, right_kp, fx_b, params) ==
  IF left_kp.first = VALID /\ right_kp.first = VALID
  THEN LET disparity == left_kp.second.x - right_kp.second.x IN
       IF disparity >= 0
       THEN LET depth == Div(fx_b, disparity) IN
            IF Lt(depth, Dbl(params.min_point_dist_)) \/
               Gt(depth, Dbl(params.max_point_dist_))
            THEN [first |-> right_kp.first, depth |-> Dbl(0)]
            ELSE [first |-> right_kp.first, depth |-> depth]
       ELSE [first |-> NO_DEPTH, depth |-> Dbl(0)]
  ELSE IF left_kp.first # VALID
       THEN [first |-> left_kp.first, depth |-> Dbl(0)]
       ELSE [first |-> right_kp.first, depth |-> Dbl(0)]

DepthIteration(left_kp, right_kp, fx_b, params) ==
  IF left_kp.first = VALID /\ right_kp.first = VALID
  THEN LET disparity == left_kp.second.x - right_kp.second.x IN
       IF disparity >= 0
       THEN LET depth == Div(fx_b, disparity) IN
            IF Lt(depth, Dbl(params.min_point_dist_)) \/
               Gt(depth, Dbl(params.max_point_dist_))
            THEN [first |-> NO_DEPTH, depth |-> Dbl(0)]
            ELSE [first |-> right_kp.first, depth |-> depth]
       ELSE [first |-> NO_DEPTH, depth |-> Dbl(0)]
  ELSE IF left_kp.first # VALID
       THEN [first |-> left_kp.first, depth |-> Dbl(0)]
       ELSE [first |-> right_kp.first, depth |-> Dbl(0)]

\* The loop from index i on; right and acc are the right keypoints and the
\* depths as the earlier iterations left them.
RECURSIVE DepthLoop(_, _, _, _, _, _)
DepthLoop(i, left, right, fx_b, params, acc) ==
  IF i > Len(left) THEN [right |-> right, depths |-> acc]
  ELSE LET it == DepthIteration(left[i], right[i], fx_b, params) IN
       DepthLoop(i + 1, left,
                 [right EXCEPT ![i].first = it.first],
                 fx_b, params, Append(acc, it.depth))

getDepthFromRectifiedMatches(left, right, fx_, baseline_, params) ==
  LET fx_b == fx_ * baseline_ IN
  IF Len(left) # Len(right)
  THEN [outcome |-> "fatal", left |-> left, right |-> right, depths |-> << >>]
  ELSE LET r == DepthLoop(1, left, right, fx_b, params, << >>) IN
       IF Len(left) # Len(r.depths)
       THEN [outcome |-> "fatal", left |-> left, right |-> r.right,
             depths |-> r.depths]
       ELSE [outcome |-> "ok", left |-> left, right |-> r.right,
             depths |-> r.depths]

-----------------------------------------------------------------------------
(* The depth-estimation scenario: a caller fills the two argument vectors *)
(* and calls getDepthFromRectifiedMatches once.                           *)

PxValues == {0, 1, 2}

\* Rectified keypoints a caller passes: a VALID one carries a pixel, a
\* keypoint that could not be rectified or matched carries the zero pixel.
InputKeypoints ==
  {StatusKeypointCV(VALID, KeypointCV(x, 0), x) : x \in PxValues}
    \cup {StatusKeypointCV(s, KeypointCV(0, 0), 0) : s \in KeypointStatus \ {VALID}}

FxValues == {0, 2}
BaselineValues == {1, 2}
MinDistValues == {1, 2}
MaxDistValues == {2}

StereoMatchingParams(min, max) == [min_point_dist_ |-> min, max_point_dist_ |-> max]

NoFrame == [id_ |-> 0, timestamp_ |-> 0, isKeyframe_ |-> FALSE,
            keypoints_ |-> << >>, scores_ |-> << >>, landmarks_ |-> << >>]

FrameIdle ==
  /\ args = [id |-> 0, timestamp |-> 0, left_frame |-> NoFrame, right_frame |-> NoFrame]
  /\ id_ = 0 /\ timestamp_ = 0
  /\ is_keyframe_ = FALSE /\ is_rectified_ = FALSE
  /\ left_frame_ = NoFrame /\ right_frame_ = NoFrame
  /\ keypoints_3d_ = << >>
  /\ left_keypoints_rectified_ = << >> /\ right_keypoints_rectified_ = << >>
  /\ smart_stereo_measurements = << >>
  /\ use_stereo_measurements = FALSE
  /\ calls = 0

DepthIdle ==
  /\ left_keypoints_rectified = << >> /\ right_keypoints_rectified = << >>
  /\ left_in = << >> /\ right_in = << >>
  /\ fx = 0 /\ baseline = 0
  /\ stereo_matching_params = StereoMatchingParams(0, 0)
  /\ depths = << >>

InitDepth ==
  /\ pc = "args" /\ outcome = "none"
  /\ FrameIdle
  /\ DepthIdle

PushLeftArgument ==
  /\ pc = "args"
  /\ Len(left_keypoints_rectified) < MaxLen
  /\ \E kp \in InputKeypoints :
       left_keypoints_rectified' = Append(left_keypoints_rectified, kp)
  /\ UNCHANGED << pc, outcome, right_keypoints_rectified, left_in, right_in,
                  fx, baseline, stereo_matching_params, depths >>
  /\ UNCHANGED frameVars

PushRightArgument ==
  /\ pc = "args"
  /\ Len(right_keypoints_rectified) < MaxLen
  /\ \E kp \in InputKeypoints :
       right_keypoints_rectified' = Append(right_keypoints_rectified, kp)
  /\ UNCHANGED << pc, outcome, left_keypoints_rectified, left_in, right_in,
                  fx, baseline, stereo_matching_params, depths >>
  /\ UNCHANGED frameVars

CallGetDepthFromRectifiedMatches ==
  /\ pc = "args"
  /\ \E f \in FxValues, b \in BaselineValues,
        min \in MinDistValues, max \in MaxDistValues :
       LET params == StereoMatchingParams(min, max)
           r == getDepthFromRectifiedMatches(left_keypoints_rectified,
                                             right_keypoints_rectified,
                                             f, b, params)
       IN /\ fx' = f /\ baseline' = b /\ stereo_matching_params' = params
          /\ left_in' = left_keypoints_rectified
          /\ right_in' = right_keypoints_rectified
          /\ left_keypoints_rectified' = r.left
          /\ right_keypoints_rectified' = r.right
          /\ depths' = r.depths
          /\ outcome' = r.outcome
  /\ pc' = "returned"
  /\ UNCHANGED frameVars

NextDepth ==
  \/ PushLeftArgument
  \/ PushRightArgument
  \/ CallGetDepthFromRectifiedMatches

SpecDepth == InitDepth /\ [][NextDepth]_vars


-----------------------------------------------------------------------------
(* Properties of getDepthFromRectifiedMatches, checked under SpecDepth *)

DepthReturned == pc = "returned" /\ outcome = "ok"

Indices == 1..Len(left_keypoints_rectified)

\* The disparity the call saw at index i.
DisparityAt(i) == left_in[i].second.x - right_in[i].second.x

BothValidAt(i) == left_in[i].first = VALID /\ right_in[i].first = VALID

\* C1: after the call, at every index whose left status is not VALID the
\* right status equals that left status, whatever it was before, and the
\* depth is 0.0.
C1_LeftStatusPropagated ==
  DepthReturned =>
    \A i \in Indices :
      left_keypoints_rectified[i].first # VALID =>
        /\ right_keypoints_rectified[i].first = left_keypoints_rectified[i].first
        /\ depths[i] = Dbl(0)

C1_Witness ==
  /\ DepthReturned
  /\ \E i \in Indices :
       /\ left_keypoints_rectified[i].first = NO_RIGHT_RECT
       /\ right_in[i].first = VALID
       /\ right_keypoints_rectified[i].first = NO_RIGHT_RECT

\* C2: at every index where both statuses are VALID and the disparity is not
\* zero, the right status stays VALID and the depth fx*baseline/disparity is
\* emitted exactly when the disparity is positive and the depth lies in
\* [min_point_dist_, max_point_dist_]; otherwise the right status becomes
\* NO_DEPTH and the depth is 0.0.
C2_DepthOrNoDepth ==
  DepthReturned =>
    \A i \in Indices :
      (BothValidAt(i) /\ DisparityAt(i) # 0) =>
        LET disparity == DisparityAt(i)
            fx_b == fx * baseline
            accepted == /\ disparity > 0
                        /\ stereo_matching_params.min_point_dist_ * disparity <= fx_b
                        /\ fx_b <= stereo_matching_params.max_point_dist_ * disparity
        IN IF accepted
           THEN /\ right_keypoints_rectified[i].first = VALID
                /\ depths[i].d > 0
                /\ depths[i].n * disparity = fx_b * depths[i].d
           ELSE /\ right_keypoints_rectified[i].first = NO_DEPTH
                /\ depths[i] = Dbl(0)

C2_Witness ==
  /\ DepthReturned
  /\ \E i, j \in Indices :
       /\ BothValidAt(i) /\ DisparityAt(i) = 2
       /\ right_keypoints_rectified[i].first = VALID
       /\ depths[i] = [n |-> 2, d |-> 1]
       /\ BothValidAt(j) /\ DisparityAt(j) = 1
       /\ right_keypoints_rectified[j].first = NO_DEPTH

\* C3 (as claimed): at every index where both statuses are VALID and the
\* disparity is exactly 0, the right status becomes NO_DEPTH and the depth
\* is 0.0, for every fx, baseline, min_point_dist_ and max_point_dist_.
C3_ZeroDisparityRejected ==
  DepthReturned =>
    \A i \in Indices :
      (BothValidAt(i) /\ DisparityAt(i) = 0) =>
        /\ right_keypoints_rectified[i].first = NO_DEPTH
        /\ depths[i] = Dbl(0)

\* C10: when fx*baseline > 0 and 0 < min_point_dist_ <= max_point_dist_, after
\* the call a depth is strictly positive iff the right status is VALID (and
\* then the left status is VALID too) and is 0.0 otherwise; no right status
\* that was not VALID becomes VALID, no left keypoint changes, and there is
\* one depth for each keypoint.
C10_DepthSignMatchesStatus ==
  (/\ DepthReturned
   /\ fx * baseline > 0
   /\ 0 < stereo_matching_params.min_point_dist_
   /\ stereo_matching_params.min_point_dist_ <= stereo_matching_params.max_point_dist_)
  => /\ Len(depths) = Len(left_keypoints_rectified)
     /\ left_keypoints_rectified = left_in
     /\ \A i \in Indices :
          /\ Gt(depths[i], Dbl(0)) <=> right_keypoints_rectified[i].first = VALID
          /\ right_keypoints_rectified[i].first = VALID
               => left_keypoints_rectified[i].first = VALID
          /\ right_keypoints_rectified[i].first # VALID => depths[i] = Dbl(0)
          /\ right_in[i].first # VALID => right_keypoints_rectified[i].first # VALID

C10_Witness ==
  /\ DepthReturned
  /\ fx * baseline > 0
  /\ \E i, j \in Indices :
       /\ right_keypoints_rectified[i].first = VALID
       /\ Gt(depths[i], Dbl(0))
       /\ BothValidAt(j) /\ DisparityAt(j) = 0
       /\ right_keypoints_rectified[j].first = NO_DEPTH
       /\ depths[j] = Dbl(0)


-----------------------------------------------------------------------------
(* StereoFrame::StereoFrame and StereoFrame::setIsKeyframe *)

\* The members after the constructor ran on a, or "fatal" when a CHECK_EQ on
\* the ids or the timestamps fails.
StereoFrameCtor(a) ==
  IF a.id # a.left_frame.id_ THEN [outcome |-> "fatal"]
  ELSE IF a.id # a.right_frame.id_ THEN [outcome |-> "fatal"]
  ELSE IF a.timestamp # a.left_frame.timestamp_ THEN [outcome |-> "fatal"]
  ELSE IF a.timestamp # a.right_frame.timestamp_ THEN [outcome |-> "fatal"]
  ELSE [outcome |-> "ok",
        id_ |-> a.id, timestamp_ |-> a.timestamp,
        left_frame_ |-> a.left_frame, right_frame_ |-> a.right_frame,
        is_keyframe_ |-> FALSE, is_rectified_ |-> FALSE]

Construct ==
  /\ pc = "new"
  /\ LET r == StereoFrameCtor(args) IN
       /\ outcome' = r.outcome
       /\ IF r.outcome = "ok"
          THEN /\ pc' = "constructed"
               /\ id_' = r.id_ /\ timestamp_' = r.timestamp_
               /\ left_frame_' = r.left_frame_ /\ right_frame_' = r.right_frame_
               /\ is_keyframe_' = r.is_keyframe_
               /\ is_rectified_' = r.is_rectified_
          ELSE /\ pc' = "aborted"
               /\ UNCHANGED << id_, timestamp_, left_frame_, right_frame_,
                               is_keyframe_, is_rectified_ >>
  /\ UNCHANGED << args, keypoints_3d_, left_keypoints_rectified_,
                  right_keypoints_rectified_, smart_stereo_measurements,
                  use_stereo_measurements, calls >>
  /\ UNCHANGED depthVars

setIsKeyframe(is_kf) ==
  /\ pc = "constructed"
  /\ is_keyframe_' = is_kf
  /\ left_frame_' = [left_frame_ EXCEPT !.isKeyframe_ = is_kf]
  /\ right_frame_' = [right_frame_ EXCEPT !.isKeyframe_ = is_kf]
  /\ outcome' = "ok"
  /\ UNCHANGED << pc, args, id_, timestamp_, is_rectified_, keypoints_3d_,
                  left_keypoints_rectified_, right_keypoints_rectified_,
                  smart_stereo_measurements, use_stereo_measurements, calls >>
  /\ UNCHANGED depthVars

CallSetIsKeyframe == \E is_kf \in BOOLEAN : setIsKeyframe(is_kf)

IdValues == {1, 2}
TimestampValues == {10, 20}

\* The monocular frames handed to the constructor: Frame is a plain record
\* with public members, so any id, timestamp and keyframe flag can arrive.
InputFrames ==
  {[NoFrame EXCEPT !.id_ = i, !.timestamp_ = t, !.isKeyframe_ = k] :
     i \in IdValues, t \in TimestampValues, k \in BOOLEAN}

InitKeyframe ==
  /\ pc = "new" /\ outcome = "none"
  /\ args \in [id : IdValues, timestamp : TimestampValues,
               left_frame : InputFrames, right_frame : InputFrames]
  /\ id_ = 0 /\ timestamp_ = 0
  /\ is_keyframe_ = FALSE /\ is_rectified_ = FALSE
  /\ left_frame_ = NoFrame /\ right_frame_ = NoFrame
  /\ keypoints_3d_ = << >>
  /\ left_keypoints_rectified_ = << >> /\ right_keypoints_rectified_ = << >>
  /\ smart_stereo_measurements = << >>
  /\ use_stereo_measurements = FALSE
  /\ calls = 0
  /\ DepthIdle

NextKeyframe ==
  \/ Construct
  \/ CallSetIsKeyframe

SpecKeyframe == InitKeyframe /\ [][NextKeyframe]_vars

\* C8 (as claimed): in every state of a constructed StereoFrame, the keyframe
\* flags of the left and of the right monocular frame both equal the stereo
\* frame's own flag.
C8_KeyframeFlagsAgree ==
  pc = "constructed" =>
    /\ left_frame_.isKeyframe_ = is_keyframe_
    /\ right_frame_.isKeyframe_ = is_keyframe_


-----------------------------------------------------------------------------
(* StereoFrame::checkStereoFrame *)

MaxRectifiedYDiff == 3

Vector3(x, y, z) == << x, y, z >>

\* The CHECKs of one loop iteration all hold at index i.
CheckIterationAcceptsZeroDepth(i) ==
  /\ right_keypoints_rectified_[i].first = VALID =>
       Abs(right_keypoints_rectified_[i].second.y -
           left_keypoints_rectified_[i].second.y) <= MaxRectifiedYDiff
  /\ IF right_keypoints_rectified_[i].first = VALID
     THEN /\ Abs(right_frame_.keypoints_[i].x) + Abs(right_frame_.keypoints_[i].y) # 0
          /\ keypoints_3d_[i][3] >= 0
     ELSE keypoints_3d_[i][3] <= 0

CheckIteration(i) ==
  /\ right_keypoints_rectified_[i].first = VALID =>
       Abs(right_keypoints_rectified_[i].second.y -
           left_keypoints_rectified_[i].second.y) <= MaxRectifiedYDiff
  /\ IF right_keypoints_rectified_[i].first = VALID
     THEN /\ Abs(right_frame_.keypoints_[i].x) + Abs(right_frame_.keypoints_[i].y) # 0
          /\ keypoints_3d_[i][3] > 0
     ELSE keypoints_3d_[i][3] <= 0

\* The loop from index i on: "fatal" at the first iteration with a failing
\* CHECK, "ok" when it runs to the end.
RECURSIVE CheckLoop(_, _)
CheckLoop(i, nrLeftKeypoints) ==
  IF i > nrLeftKeypoints THEN "ok"
  ELSE IF ~CheckIteration(i) THEN "fatal"
  ELSE CheckLoop(i + 1, nrLeftKeypoints)

CheckSizes(nrLeftKeypoints) ==
  /\ Len(left_frame_.scores_) = nrLeftKeypoints
  /\ Len(right_frame_.keypoints_) = nrLeftKeypoints
  /\ Len(keypoints_3d_) = nrLeftKeypoints
  /\ Len(left_keypoints_rectified_) = nrLeftKeypoints
  /\ Len(right_keypoints_rectified_) = nrLeftKeypoints

checkStereoFrame ==
  LET nrLeftKeypoints == Len(left_frame_.keypoints_) IN
  IF ~CheckSizes(nrLeftKeypoints) THEN "fatal"
  ELSE CheckLoop(1, nrLeftKeypoints)

CallCheckStereoFrame ==
  /\ pc \in {"building", "misaligned"}
  /\ outcome' = checkStereoFrame
  /\ pc' = "checked"
  /\ UNCHANGED frameVars
  /\ UNCHANGED depthVars

-----------------------------------------------------------------------------
(* StereoFrame::getSmartStereoMeasurements *)

StereoPoint2(uL, uR, v) == [uL |-> uL, uR |-> uR, v |-> v]

ClearKeepsContent(container) == container

\* std::vector::clear on the caller's container.
Clear(container) == << >>

\* uR of the observation at index i: NaN unless the flag is set and the
\* right keypoint is VALID, and then the member x of the element itself
\* (the code reads .at(i).x, not .at(i).second.x).
RightU(i, use) ==
  IF use /\ right_keypoints_rectified_[i].first = VALID
  THEN Dbl(right_keypoints_rectified_[i].x)
  ELSE NaN

\* The loop over the landmarks from index i on, out being the container as
\* the earlier iterations left it.  vector::at throws std::out_of_range.
RECURSIVE MeasurementLoop(_, _, _)
MeasurementLoop(i, out, use) ==
  IF i > Len(left_frame_.landmarks_) THEN [outcome |-> "ok", out |-> out]
  ELSE LET lmk_id == left_frame_.landmarks_[i] IN
       IF lmk_id = -1 THEN MeasurementLoop(i + 1, out, use)
       ELSE IF i > Len(left_keypoints_rectified_)
       THEN [outcome |-> "out_of_range", out |-> out]
       ELSE LET left_kpt == left_keypoints_rectified_[i].second
                uL == Dbl(left_kpt.x)
                v == Dbl(left_kpt.y)
            IN IF use /\ i > Len(right_keypoints_rectified_)
               THEN [outcome |-> "out_of_range", out |-> out]
               ELSE MeasurementLoop(
                      i + 1,
                      Append(out, << lmk_id, StereoPoint2(uL, RightU(i, use), v) >>),
                      use)

RectifiedGateSkipped == TRUE

\* CHECK(is_rectified_)
RectifiedGate == is_rectified_

getSmartStereoMeasurements(container, use) ==
  LET cleared == Clear(container) IN
  IF ~RectifiedGate THEN [outcome |-> "fatal", out |-> cleared]
  ELSE IF checkStereoFrame = "fatal" THEN [outcome |-> "fatal", out |-> cleared]
  ELSE MeasurementLoop(1, cleared, use)

CallGetSmartStereoMeasurements ==
  /\ pc \in {"building", "misaligned", "checked", "measured"}
  /\ calls < MaxCalls
  /\ calls' = calls + 1
  /\ \E use \in BOOLEAN :
       LET r == getSmartStereoMeasurements(smart_stereo_measurements, use) IN
         /\ smart_stereo_measurements' = r.out
         /\ outcome' = r.outcome
         /\ use_stereo_measurements' = use
  /\ pc' = "measured"
  /\ UNCHANGED << args, id_, timestamp_, is_keyframe_, is_rectified_,
                  left_frame_, right_frame_, keypoints_3d_,
                  left_keypoints_rectified_, right_keypoints_rectified_ >>
  /\ UNCHANGED depthVars


-----------------------------------------------------------------------------
(* The frames the checker and the measurement assembler are run on.  The   *)
(* containers are public members filled by the detection, matching,        *)
(* rectification and triangulation stages; the scenarios below fill them   *)
(* one keypoint at a time.                                                 *)

SetContainers(lk, sc, lm, rk, k3, lr, rr) ==
  /\ left_frame_' = [left_frame_ EXCEPT !.keypoints_ = lk, !.scores_ = sc,
                                        !.landmarks_ = lm]
  /\ right_frame_' = [right_frame_ EXCEPT !.keypoints_ = rk]
  /\ keypoints_3d_' = k3
  /\ left_keypoints_rectified_' = lr
  /\ right_keypoints_rectified_' = rr

EmptyFrame(rectified) ==
  /\ args = [id |-> 1, timestamp |-> 10,
             left_frame |-> [NoFrame EXCEPT !.id_ = 1, !.timestamp_ = 10],
             right_frame |-> [NoFrame EXCEPT !.id_ = 1, !.timestamp_ = 10]]
  /\ id_ = 1 /\ timestamp_ = 10
  /\ is_keyframe_ = FALSE /\ is_rectified_ = rectified
  /\ left_frame_ = [NoFrame EXCEPT !.id_ = 1, !.timestamp_ = 10]
  /\ right_frame_ = [NoFrame EXCEPT !.id_ = 1, !.timestamp_ = 10]
  /\ keypoints_3d_ = << >>
  /\ left_keypoints_rectified_ = << >> /\ right_keypoints_rectified_ = << >>
  /\ smart_stereo_measurements = << >>
  /\ use_stereo_measurements = FALSE
  /\ calls = 0

ZValues == {-1, 0, 1}
RawRightKeypoints == {KeypointCV(0, 0), KeypointCV(-1, 1)}
RightRectifiedYValues == {3, 4}
LandmarkValues == {-1, 1, 2}

\* One more keypoint in every container, index-aligned: any right status,
\* any sign of depth, a raw right keypoint at the origin or away from it,
\* and a right rectified row 3 or 4 pixels off the left one.
AddKeypointToCheck ==
  /\ pc = "building"
  /\ Len(left_frame_.keypoints_) < MaxLen
  /\ \E status \in KeypointStatus, z \in ZValues,
        raw \in RawRightKeypoints, y \in RightRectifiedYValues :
       SetContainers(
         Append(left_frame_.keypoints_, KeypointCV(1, 1)),
         Append(left_frame_.scores_, 1),
         Append(left_frame_.landmarks_, 1),
         Append(right_frame_.keypoints_, raw),
         Append(keypoints_3d_, Vector3(0, 0, z)),
         Append(left_keypoints_rectified_,
                StatusKeypointCV(VALID, KeypointCV(3, 0), 3)),
         Append(right_keypoints_rectified_,
                StatusKeypointCV(status, KeypointCV(2, y), 2)))
  /\ UNCHANGED << pc, outcome, args, id_, timestamp_, is_keyframe_, is_rectified_,
                  smart_stereo_measurements, use_stereo_measurements, calls >>
  /\ UNCHANGED depthVars

\* One stage wrote one element more than the others into its container.
PushOnly(lk, sc, rk, k3, lr, rr) ==
  /\ pc = "building"
  /\ Len(left_frame_.keypoints_) < MaxLen
  /\ SetContainers(left_frame_.keypoints_ \o lk, left_frame_.scores_ \o sc,
                   left_frame_.landmarks_, right_frame_.keypoints_ \o rk,
                   keypoints_3d_ \o k3, left_keypoints_rectified_ \o lr,
                   right_keypoints_rectified_ \o rr)
  /\ pc' = "misaligned"
  /\ UNCHANGED << outcome, args, id_, timestamp_, is_keyframe_, is_rectified_,
                  smart_stereo_measurements, use_stereo_measurements, calls >>
  /\ UNCHANGED depthVars

PushLeftKeypoint ==
  PushOnly(<< KeypointCV(1, 1) >>, << >>, << >>, << >>, << >>, << >>)

PushScore ==
  PushOnly(<< >>, << 1 >>, << >>, << >>, << >>, << >>)

PushRightKeypoint ==
  PushOnly(<< >>, << >>, << KeypointCV(-1, 1) >>, << >>, << >>, << >>)

PushKeypoint3d ==
  PushOnly(<< >>, << >>, << >>, << Vector3(0, 0, 0) >>, << >>, << >>)

PushLeftKeypointRectified ==
  PushOnly(<< >>, << >>, << >>, << >>,
           << StatusKeypointCV(VALID, KeypointCV(3, 0), 3) >>, << >>)

PushRightKeypointRectified ==
  PushOnly(<< >>, << >>, << >>, << >>, << >>,
           << StatusKeypointCV(NO_DEPTH, KeypointCV(2, 3), 2) >>)

InitCheck ==
  /\ pc = "building" /\ outcome = "none"
  /\ EmptyFrame(TRUE)
  /\ DepthIdle

NextCheck ==
  \/ AddKeypointToCheck
  \/ PushLeftKeypoint
  \/ PushScore
  \/ PushRightKeypoint
  \/ PushKeypoint3d
  \/ PushLeftKeypointRectified
  \/ PushRightKeypointRectified
  \/ CallCheckStereoFrame

SpecCheck == InitCheck /\ [][NextCheck]_vars

MeasuredZValues == {0, 1}

\* The member x of a right rectified element whose pixel lies in column col:
\* that column or another value for a VALID one, the column otherwise.
RightMemberXValues(status, col) == IF status = VALID THEN {col, 777} ELSE {col}

\* One more keypoint in every container but the landmarks: the i-th one
\* lies at column 3i; any right status, with or without a positive depth,
\* and a member x of the right element that may differ from its column.
AddKeypointToMeasure ==
  /\ pc = "building"
  /\ Len(left_frame_.keypoints_) < MaxLen
  /\ LET i == Len(left_frame_.keypoints_) + 1 IN
     \E status \in KeypointStatus, z \in MeasuredZValues :
     \E x \in RightMemberXValues(status, 3 * i - 1) :
       SetContainers(
         Append(left_frame_.keypoints_, KeypointCV(3 * i, i)),
         Append(left_frame_.scores_, 1),
         left_frame_.landmarks_,
         Append(right_frame_.keypoints_, KeypointCV(3 * i - 1, i)),
         Append(keypoints_3d_, Vector3(0, 0, z)),
         Append(left_keypoints_rectified_,
                StatusKeypointCV(VALID, KeypointCV(3 * i, i), 3 * i)),
         Append(right_keypoints_rectified_,
                StatusKeypointCV(status, KeypointCV(3 * i - 1, i + 1), x)))
  /\ UNCHANGED << pc, outcome, args, id_, timestamp_, is_keyframe_, is_rectified_,
                  smart_stereo_measurements, use_stereo_measurements, calls >>
  /\ UNCHANGED depthVars

\* One more landmark id in the left frame, -1 for a keypoint without landmark.
AddLandmark ==
  /\ pc = "building"
  /\ Len(left_frame_.landmarks_) < MaxLen
  /\ \E lmk_id \in LandmarkValues :
       left_frame_' = [left_frame_ EXCEPT
                         !.landmarks_ = Append(left_frame_.landmarks_, lmk_id)]
  /\ UNCHANGED << pc, outcome, args, id_, timestamp_, is_keyframe_, is_rectified_,
                  right_frame_, keypoints_3d_, left_keypoints_rectified_,
                  right_keypoints_rectified_, smart_stereo_measurements,
                  use_stereo_measurements, calls >>
  /\ UNCHANGED depthVars

InitMeasure ==
  /\ pc = "building" /\ outcome = "none"
  /\ \E rectified \in BOOLEAN : EmptyFrame(rectified)
  /\ DepthIdle

NextMeasure ==
  \/ AddKeypointToMeasure
  \/ AddLandmark
  \/ PushKeypoint3d
  \/ CallCheckStereoFrame
  \/ CallGetSmartStereoMeasurements

SpecMeasure == InitMeasure /\ [][NextMeasure]_vars


-----------------------------------------------------------------------------
(* Properties of checkStereoFrame, checked under SpecCheck *)

Min(a, b) == IF a <= b THEN a ELSE b

FiveSameLength ==
  /\ Len(right_frame_.keypoints_) = Len(left_frame_.keypoints_)
  /\ Len(keypoints_3d_) = Len(left_frame_.keypoints_)
  /\ Len(left_keypoints_rectified_) = Len(left_frame_.keypoints_)
  /\ Len(right_keypoints_rectified_) = Len(left_frame_.keypoints_)

\* The depth-sign rule is broken at index i.
SignBrokenAt(i) ==
  \/ right_keypoints_rectified_[i].first = VALID /\ keypoints_3d_[i][3] <= 0
  \/ right_keypoints_rectified_[i].first # VALID /\ keypoints_3d_[i][3] > 0

SignBroken ==
  \E i \in 1..Min(Len(right_keypoints_rectified_), Len(keypoints_3d_)) :
    SignBrokenAt(i)

\* C4: checkStereoFrame fails fatally on every frame whose five parallel
\* sequences differ in length or that has an index with a VALID right status
\* and z <= 0, or another status and z > 0; so on a frame it lets pass,
\* z > 0 holds iff the right status is VALID, at every index.
C4_CheckerEnforcesDepthSign ==
  pc = "checked" =>
    /\ (~FiveSameLength \/ SignBroken) => outcome = "fatal"
    /\ outcome = "ok" =>
         \A i \in 1..Len(keypoints_3d_) :
           keypoints_3d_[i][3] > 0 <=> right_keypoints_rectified_[i].first = VALID

C4_Witness ==
  /\ pc = "checked" /\ outcome = "fatal"
  /\ FiveSameLength
  /\ Len(left_frame_.scores_) = Len(left_frame_.keypoints_)
  /\ Len(keypoints_3d_) = 2
  /\ \A i \in 1..2 :
       /\ right_keypoints_rectified_[i].first = VALID
       /\ right_frame_.keypoints_[i] = KeypointCV(-1, 1)
       /\ right_keypoints_rectified_[i].second.y = 3
  /\ keypoints_3d_[1][3] = 1
  /\ keypoints_3d_[2][3] = 0

-----------------------------------------------------------------------------
(* Properties of getSmartStereoMeasurements, checked under SpecMeasure *)

\* Some invariant of the checker is broken, stated over the whole frame.
CheckerInvariantBroken ==
  \/ ~FiveSameLength
  \/ Len(left_frame_.scores_) # Len(left_frame_.keypoints_)
  \/ \E i \in 1..Len(left_frame_.keypoints_) :
       \/ SignBrokenAt(i)
       \/ /\ right_keypoints_rectified_[i].first = VALID
          /\ \/ right_frame_.keypoints_[i] = KeypointCV(0, 0)
             \/ right_keypoints_rectified_[i].second.y -
                  left_keypoints_rectified_[i].second.y > MaxRectifiedYDiff
             \/ left_keypoints_rectified_[i].second.y -
                  right_keypoints_rectified_[i].second.y > MaxRectifiedYDiff

\* The landmark ids other than -1, in index order.
LandmarkIdsKept == SelectSeq(left_frame_.landmarks_, LAMBDA id : id # -1)

\* The index of the k-th landmark id other than -1.
KeptIndex(k) ==
  CHOOSE i \in 1..Len(left_frame_.landmarks_) :
    /\ left_frame_.landmarks_[i] # -1
    /\ Cardinality({j \in 1..i : left_frame_.landmarks_[j] # -1}) = k

\* C5: on a frame that is not rectified, or that breaks an invariant of the
\* checker, getSmartStereoMeasurements fails fatally and the container holds
\* no measurement, whatever use_stereo_measurements is.
C5_NoMeasurementWithoutGate ==
  (pc = "measured" /\ (~is_rectified_ \/ CheckerInvariantBroken)) =>
    /\ outcome = "fatal"
    /\ smart_stereo_measurements = << >>

C5_Witness ==
  /\ pc = "measured" /\ outcome = "fatal"
  /\ ~is_rectified_
  /\ ~CheckerInvariantBroken
  /\ use_stereo_measurements
  /\ Len(left_frame_.keypoints_) = 2
  /\ left_frame_.landmarks_ = << 1, 2 >>
  /\ smart_stereo_measurements = << >>

\* C6 (as claimed): on a rectified frame that passes the checker, the output
\* is exactly the landmark ids other than -1, in index order.
C6_OutputIsFilteredLandmarks ==
  (pc = "measured" /\ is_rectified_ /\ ~CheckerInvariantBroken) =>
    /\ outcome = "ok"
    /\ [k \in 1..Len(smart_stereo_measurements) |-> smart_stereo_measurements[k][1]]
         = LandmarkIdsKept

\* C7 (as claimed): every emitted observation carries, for its index i, uL
\* and v from the left rectified keypoint at i, and as uR the x-coordinate of
\* the right rectified pixel at i if use_stereo_measurements is set and the
\* right status at i is VALID, NaN otherwise; a call that returns emitted one
\* observation for every landmark id other than -1, whatever the right status.
C7_ObservationContent ==
  pc = "measured" =>
    /\ \A k \in 1..Len(smart_stereo_measurements) :
         LET i == KeptIndex(k)
             uR == IF /\ use_stereo_measurements
                      /\ right_keypoints_rectified_[i].first = VALID
                   THEN Dbl(right_keypoints_rectified_[i].second.x)
                   ELSE NaN
         IN smart_stereo_measurements[k] =
              << left_frame_.landmarks_[i],
                 [uL |-> Dbl(left_keypoints_rectified_[i].second.x),
                  uR |-> uR,
                  v |-> Dbl(left_keypoints_rectified_[i].second.y)] >>
    /\ outcome = "ok" =>
         Len(smart_stereo_measurements) = Len(LandmarkIdsKept)

\* The members of the frame.
Members == << id_, timestamp_, is_keyframe_, is_rectified_, left_frame_,
              right_frame_, keypoints_3d_, left_keypoints_rectified_,
              right_keypoints_rectified_ >>

\* C9: checkStereoFrame and getSmartStereoMeasurements leave every member of
\* the frame as it was, and a call of getSmartStereoMeasurements that follows
\* another with the same flag, on the container the first one filled, ends
\* the same way and leaves the same content in it.
C9_ReadOnlyAndRepeatable ==
  [][/\ pc' \in {"checked", "measured"} => Members' = Members
     /\ (pc = "measured" /\ pc' = "measured" /\
         use_stereo_measurements' = use_stereo_measurements)
          => /\ smart_stereo_measurements' = smart_stereo_measurements
             /\ outcome' = outcome]_vars

C9_Witness ==
  /\ pc = "measured" /\ outcome = "ok"
  /\ calls = 2
  /\ Len(smart_stereo_measurements) = 2
  /\ Len(left_frame_.landmarks_) = 2

=============================================================================
